---- MODULE Spec2Model ----
(***************************************************************************)
(* Model of the Placas Mundi sales dashboard (src/main.py): the ingestion  *)
(* routine carregar_dados, the region aggregation                          *)
(* calcular_vendas_por_regiao and the aggregation steps of main().         *)
(*                                                                         *)
(* Text is modelled as a sequence of one-character strings so that         *)
(* strip, startswith, substring search, number parsing and date parsing    *)
(* are computed character by character.  A data frame is a record of its   *)
(* column names, its column dtypes and its rows (sequences of cells).      *)
(***************************************************************************)
EXTENDS Integers, Sequences, FiniteSets, TLC

(***************************************************************************)
(* Bounds                                                                  *)
(***************************************************************************)
\* largest number of data lines of an uploaded file (general specification)
MaxRows == 2
\* largest number of data lines of an uploaded file (top-N specification)
MaxStates == 11
\* largest number of data lines of an uploaded file (tier specification)
MaxSales == 3

(***************************************************************************)
(* Text                                                                    *)
(***************************************************************************)
\* the characters used by the model, in code point order
Chars ==
  << " ", "-", "/", "0", "1", "2", "3", "4", "5", "6", "7", "8", "9",
     "A", "B", "C", "D", "E", "F", "G", "H", "I", "J", "K", "L", "M",
     "N", "O", "P", "Q", "R", "S", "T", "U", "V", "W", "X", "Y", "Z",
     "_", "a", "b", "c", "d", "e", "f", "g", "h", "i", "j", "k", "l", "m",
     "n", "o", "p", "q", "r", "s", "t", "u", "v", "w", "x", "y", "z",
     "Ç" >>

Ord(c) == CHOOSE i \in 1..Len(Chars) : Chars[i] = c

Digits == {"0", "1", "2", "3", "4", "5", "6", "7", "8", "9"}

DigitVal(c) == Ord(c) - Ord("0")

\* str < str of Python: lexicographic by code point
RECURSIVE StrLess(_, _)
StrLess(a, b) ==
  IF b = <<>> THEN FALSE
  ELSE IF a = <<>> THEN TRUE
  ELSE IF Head(a) = Head(b) THEN StrLess(Tail(a), Tail(b))
  ELSE Ord(Head(a)) < Ord(Head(b))

RECURSIVE lstrip(_)
lstrip(s) == IF s # <<>> /\ Head(s) = " " THEN lstrip(Tail(s)) ELSE s

RECURSIVE rstrip(_)
rstrip(s) ==
  IF s # <<>> /\ s[Len(s)] = " " THEN rstrip(SubSeq(s, 1, Len(s) - 1)) ELSE s

\* str.strip()
strip(s) == rstrip(lstrip(s))

\* str.startswith(p)
startswith(s, p) == Len(s) >= Len(p) /\ SubSeq(s, 1, Len(p)) = p

\* p in s
contains(s, p) ==
  \E i \in 1..(Len(s) - Len(p) + 1) : SubSeq(s, i, i + Len(p) - 1) = p

\* the fields of s between occurrences of the separator sep
RECURSIVE split(_, _)
split(s, sep) ==
  IF \A i \in 1..Len(s) : s[i] # sep THEN << s >>
  ELSE LET k == CHOOSE i \in 1..Len(s) :
                    s[i] = sep /\ \A j \in 1..(i - 1) : s[j] # sep
       IN  << SubSeq(s, 1, k - 1) >> \o split(SubSeq(s, k + 1, Len(s)), sep)

AllDigits(s) == s # <<>> /\ \A i \in 1..Len(s) : s[i] \in Digits

RECURSIVE NatOf(_)
NatOf(s) ==
  IF s = <<>> THEN 0 ELSE 10 * NatOf(SubSeq(s, 1, Len(s) - 1)) + DigitVal(s[Len(s)])

(***************************************************************************)
(* Cells                                                                   *)
(***************************************************************************)
NaN == [t |-> "nan"]
Str(s) == [t |-> "str", s |-> s]
Num(n) == [t |-> "num", n |-> n]
Date(d, m, y) == [t |-> "date", d |-> d, m |-> m, y |-> y]

isna(c) == c.t = "nan"

\* an integer literal: an optional minus sign and one or more digits
IsIntText(s) ==
  \/ AllDigits(s)
  \/ (s # <<>> /\ Head(s) = "-" /\ AllDigits(Tail(s)))

IntOf(s) == IF Head(s) = "-" THEN 0 - NatOf(Tail(s)) ELSE NatOf(s)

\* pd.to_numeric(..., errors='coerce') on one cell
to_numeric(c) ==
  IF c.t = "num" THEN c
  ELSE IF c.t = "str" /\ IsIntText(c.s) THEN Num(IntOf(c.s))
  ELSE NaN

\* fillna(0) on one cell
fillna0(c) == IF isna(c) THEN Num(0) ELSE c

IsLeap(y) == (y % 4 = 0 /\ y % 100 # 0) \/ y % 400 = 0

DaysInMonth(m, y) ==
  IF m = 2 THEN (IF IsLeap(y) THEN 29 ELSE 28)
  ELSE IF m \in {4, 6, 9, 11} THEN 30 ELSE 31

\* the %d directive: one or two digits, or a blank and a digit; value 1..31
DayField(f) ==
  IF Len(f) = 2 /\ f[1] = " " /\ f[2] \in Digits THEN DigitVal(f[2])
  ELSE IF AllDigits(f) /\ Len(f) <= 2 THEN NatOf(f)
  ELSE 0

\* the %m directive: one or two digits, value 1..12
MonthField(f) == IF AllDigits(f) /\ Len(f) <= 2 THEN NatOf(f) ELSE 0

\* the %Y directive: exactly four digits
YearField(f) == IF AllDigits(f) /\ Len(f) = 4 THEN NatOf(f) ELSE 0

\* pd.to_datetime(..., format='%d/%m/%Y', errors='coerce') on one cell
to_datetime(c) ==
  IF c.t # "str" THEN NaN
  ELSE LET fs == split(c.s, "/") IN
       IF Len(fs) # 3 THEN NaN
       ELSE LET d == DayField(fs[1])
                m == MonthField(fs[2])
                y == YearField(fs[3])
            IN  IF /\ d >= 1 /\ m >= 1 /\ m <= 12 /\ y >= 1
                   /\ d <= DaysInMonth(m, y)
                  THEN Date(d, m, y) ELSE NaN

(***************************************************************************)
(* Column names                                                            *)
(***************************************************************************)
cDATA == << "D", "A", "T", "A" >>
cUF == << "U", "F" >>
cCLIENTE == << "C", "L", "I", "E", "N", "T", "E" >>
cCONSULTOR == << "C", "O", "N", "S", "U", "L", "T", "O", "R" >>
cQUANTIDADE_TOTAL ==
  << "Q", "U", "A", "N", "T", "I", "D", "A", "D", "E", "_", "T", "O", "T", "A", "L" >>
cMES == << "M", "E", "S" >>
cREGIAO == << "R", "E", "G", "I", "A", "O" >>
p6F == << "6", "F" >>
p8F == << "8", "F" >>

(***************************************************************************)
(* Data frames                                                             *)
(***************************************************************************)
HasCol(df, name) == \E i \in 1..Len(df.columns) : df.columns[i] = name

ColIdx(df, name) == CHOOSE i \in 1..Len(df.columns) : df.columns[i] = name

\* df[name].dtype
DType(df, name) == df.dtypes[ColIdx(df, name)]

\* the dtype read_csv infers for column j of the file
InferDType(file, j) ==
  LET cells == { file.rows[i][j] : i \in 1..Len(file.rows) } IN
  IF file.rows = <<>> THEN "object"
  ELSE IF \E s \in cells : s # <<>> /\ ~ IsIntText(s) THEN "object"
  ELSE IF <<>> \in cells THEN "float64"
  ELSE "int64"

\* the cell read_csv makes of the text s in a column of dtype dt
ReadCell(s, dt) ==
  IF s = <<>> THEN NaN
  ELSE IF dt = "object" THEN Str(s)
  ELSE Num(IntOf(s))

\* pd.read_csv(uploaded_file): the first line is the header
read_csv(file) ==
  LET dts == [j \in 1..Len(file.header) |-> InferDType(file, j)] IN
  [ columns |-> file.header,
    dtypes  |-> dts,
    rows    |-> [i \in 1..Len(file.rows) |->
                   [j \in 1..Len(file.header) |-> ReadCell(file.rows[i][j], dts[j])]] ]

(***************************************************************************)
(* carregar_dados                                                          *)
(***************************************************************************)
JANEIRO == << "J", "A", "N", "E", "I", "R", "O" >>
FEVEREIRO == << "F", "E", "V", "E", "R", "E", "I", "R", "O" >>
MARCO == << "M", "A", "R", "Ç", "O" >>
ABRIL == << "A", "B", "R", "I", "L" >>
MAIO == << "M", "A", "I", "O" >>
JUNHO == << "J", "U", "N", "H", "O" >>

meses_invalidos == { JANEIRO, FEVEREIRO, MARCO, ABRIL, MAIO, JUNHO }

\* colunas_quantidade with the second prefix forgotten
colunas_quantidade_6F(df) ==
  { j \in 1..Len(df.columns) : startswith(df.columns[j], p6F) }

\* the indices of the columns whose name starts with 6F or 8F
colunas_quantidade(df) ==
  { j \in 1..Len(df.columns) :
      startswith(df.columns[j], p6F) \/ startswith(df.columns[j], p8F) }

\* fillna(0), then to_numeric(errors='coerce').fillna(0), on one cell
QtyCell(c) == fillna0(to_numeric(fillna0(c)))

\* the dtype of a quantity column after the conversion
QtyDType(df, j) ==
  IF df.dtypes[j] # "object" THEN df.dtypes[j]
  ELSE IF \E i \in 1..Len(df.rows) : isna(to_numeric(fillna0(df.rows[i][j])))
    THEN "float64" ELSE "int64"

RECURSIVE SumCols(_, _, _)
\* the sum of the numeric cells of row r over the columns cols, up to column j
SumCols(r, cols, j) ==
  IF j = 0 THEN 0
  ELSE (IF j \in cols THEN r[j].n ELSE 0) + SumCols(r, cols, j - 1)

Raised(e) == [exc |-> e, df |-> NaN]
Returned(df) == [exc |-> "none", df |-> df]

carregar_dados(file) ==
  LET df == read_csv(file) IN
  IF ~ HasCol(df, cDATA) THEN Raised("KeyError")
  ELSE
  LET iD == ColIdx(df, cDATA)
      NotMonth(r) == ~ (r[iD].t = "str" /\ r[iD].s \in meses_invalidos)
      rows1 == SelectSeq(df.rows, NotMonth)
  IN
  IF ~ HasCol(df, cUF) THEN Raised("KeyError")
  ELSE
  LET iU == ColIdx(df, cUF)
      NotNull(r) == ~ isna(r[iD]) /\ ~ isna(r[iU])
      rows2 == SelectSeq(rows1, NotNull)
  IN
  IF df.dtypes[iD] # "object" THEN Raised("AttributeError")
  ELSE
  LET DataNotBlank(r) == strip(r[iD].s) # <<>>
      rows3 == SelectSeq(rows2, DataNotBlank)
  IN
  IF df.dtypes[iU] # "object" THEN Raised("AttributeError")
  ELSE
  LET UFNotBlank(r) == strip(r[iU].s) # <<>>
      rows4 == SelectSeq(rows3, UFNotBlank)
      n == Len(df.columns)
      qcols == colunas_quantidade(df)
      Convert(r) ==
        LET q == [j \in 1..n |-> IF j \in qcols THEN QtyCell(r[j]) ELSE r[j]]
            d == [q EXCEPT ![iD] = to_datetime(r[iD])]
        IN  d \o << Num(SumCols(q, qcols, n)) >>
      rows5 == [i \in 1..Len(rows4) |-> Convert(rows4[i])]
      DateOk(r) == ~ isna(r[iD])
      rows6 == SelectSeq(rows5, DateOk)
      WithMes(r) == r \o << Num(r[iD].m) >>
  IN
  Returned(
    [ columns |-> df.columns \o << cQUANTIDADE_TOTAL, cMES >>,
      dtypes  |-> [j \in 1..n |->
                     IF j \in qcols THEN QtyDType(df, j)
                     ELSE IF j = iD THEN "datetime64" ELSE df.dtypes[j]]
                  \o << "float64", "int32" >>,
      rows    |-> [i \in 1..Len(rows6) |-> WithMes(rows6[i])] ])

(***************************************************************************)
(* Grouping, percentages, ordering                                         *)
(***************************************************************************)
\* the number of rows kept by head(10)
TopN == 10

Inf == [t |-> "inf"]
NegInf == [t |-> "-inf"]

\* n / d rounded to the nearest integer, halves to the even neighbour
RoundDiv(n, d) ==
  LET nn == IF d < 0 THEN 0 - n ELSE n
      dd == IF d < 0 THEN 0 - d ELSE d
      f == nn \div dd
      r == nn % dd
  IN  IF 2 * r < dd THEN f
      ELSE IF 2 * r > dd THEN f + 1
      ELSE IF f % 2 = 0 THEN f ELSE f + 1

\* (q / total * 100).round(1), in tenths of a percent; x / 0 is nan or inf
Percentual(q, total) ==
  IF total = 0
    THEN (IF q = 0 THEN NaN ELSE IF q > 0 THEN Inf ELSE NegInf)
    ELSE Num(RoundDiv(1000 * q, total))

RECURSIVE SortKeys(_)
\* the keys of a groupby, in ascending order
SortKeys(S) ==
  IF S = {} THEN <<>>
  ELSE LET m == CHOOSE k \in S : \A o \in S \ {k} : StrLess(k, o)
       IN  << m >> \o SortKeys(S \ {m})

RECURSIVE SumCol(_, _)
\* the sum of column j over the rows
SumCol(rows, j) ==
  IF rows = <<>> THEN 0 ELSE Head(rows)[j].n + SumCol(Tail(rows), j)

\* the number of distinct non-null values of column j in the rows
nunique(rows, j) ==
  Cardinality({ rows[i][j] : i \in 1..Len(rows) } \ {NaN})

\* the number of non-null values of column j in the rows
count(rows, j) == Cardinality({ i \in 1..Len(rows) : ~ isna(rows[i][j]) })

\* df.groupby(key).agg({QUANTIDADE_TOTAL: sum, CLIENTE: nunique, DATA: count})
\*   .rename(...).reset_index(): one row per key, null keys dropped
groupby_agg(df, key) ==
  LET k == ColIdx(df, key)
      keys == SortKeys({ df.rows[i][k].s :
                           i \in { n \in 1..Len(df.rows) : df.rows[n][k].t = "str" } })
      Group(g) == SelectSeq(df.rows, LAMBDA r : r[k] = Str(g))
  IN  [i \in 1..Len(keys) |->
         [ key        |-> keys[i],
           Quantidade |-> SumCol(Group(keys[i]), ColIdx(df, cQUANTIDADE_TOTAL)),
           Clientes   |-> nunique(Group(keys[i]), ColIdx(df, cCLIENTE)),
           Vendas     |-> count(Group(keys[i]), ColIdx(df, cDATA)) ]]

\* df.groupby(key)[QUANTIDADE_TOTAL].sum()
groupby_sum(df, key) ==
  LET k == ColIdx(df, key)
      keys == SortKeys({ df.rows[i][k].s :
                           i \in { n \in 1..Len(df.rows) : df.rows[n][k].t = "str" } })
      Group(g) == SelectSeq(df.rows, LAMBDA r : r[k] = Str(g))
  IN  [i \in 1..Len(keys) |->
         [ key        |-> keys[i],
           Quantidade |-> SumCol(Group(keys[i]), ColIdx(df, cQUANTIDADE_TOTAL)) ]]

RemoveAt(s, k) == SubSeq(s, 1, k - 1) \o SubSeq(s, k + 1, Len(s))

\* sort_values forgotten: the rows stay in the order of the groupby
sort_values_unsorted(s) == s

RECURSIVE sort_values(_)
\* sort_values('Quantidade', ascending=False): rows with equal Quantidade
\* keep their relative order
sort_values(s) ==
  IF s = <<>> THEN <<>>
  ELSE LET k == CHOOSE i \in 1..Len(s) :
                  /\ \A j \in 1..Len(s) : s[j].Quantidade <= s[i].Quantidade
                  /\ \A j \in 1..(i - 1) : s[j].Quantidade < s[i].Quantidade
       IN  << s[k] >> \o sort_values(RemoveAt(s, k))

\* head(n)
head(s, n) == SubSeq(s, 1, IF Len(s) < n THEN Len(s) ELSE n)

RECURSIVE SumQuantidade(_)
\* agg['Quantidade'].sum()
SumQuantidade(s) ==
  IF s = <<>> THEN 0 ELSE Head(s).Quantidade + SumQuantidade(Tail(s))

(***************************************************************************)
(* Regions                                                                 *)
(***************************************************************************)
Norte == << "N", "o", "r", "t", "e" >>
Nordeste == << "N", "o", "r", "d", "e", "s", "t", "e" >>
CentroOeste == << "C", "e", "n", "t", "r", "o", "-", "O", "e", "s", "t", "e" >>
Sudeste == << "S", "u", "d", "e", "s", "t", "e" >>
Sul == << "S", "u", "l" >>

criar_mapeamento_regioes ==
  << << Norte, << <<"A","C">>, <<"A","P">>, <<"A","M">>, <<"P","A">>,
                  <<"R","O">>, <<"R","R">>, <<"T","O">> >> >>,
     << Nordeste, << <<"A","L">>, <<"B","A">>, <<"C","E">>, <<"M","A">>,
                     <<"P","B">>, <<"P","E">>, <<"P","I">>, <<"R","N">>,
                     <<"S","E">> >> >>,
     << CentroOeste, << <<"D","F">>, <<"G","O">>, <<"M","T">>, <<"M","S">> >> >>,
     << Sudeste, << <<"E","S">>, <<"M","G">>, <<"R","J">>, <<"S","P">> >> >>,
     << Sul, << <<"P","R">>, <<"R","S">>, <<"S","C">> >> >> >>

\* estado_para_regiao built with one entry per region, its last state
estado_para_regiao_last(c) ==
  LET m == criar_mapeamento_regioes
      hits == { i \in 1..Len(m) : c.t = "str" /\ m[i][2][Len(m[i][2])] = c.s }
  IN  IF hits = {} THEN NaN ELSE Str(m[CHOOSE i \in hits : TRUE][1])

\* df['UF'].map(estado_para_regiao) on one cell
estado_para_regiao(c) ==
  LET m == criar_mapeamento_regioes
      hits == { i \in 1..Len(m) :
                  c.t = "str" /\ \E j \in 1..Len(m[i][2]) : m[i][2][j] = c.s }
  IN  IF hits = {} THEN NaN ELSE Str(m[CHOOSE i \in hits : TRUE][1])

\* the data frame with the added column REGIAO
WithRegiao(df) ==
  LET u == ColIdx(df, cUF) IN
  [ columns |-> df.columns \o << cREGIAO >>,
    dtypes  |-> df.dtypes \o << "object" >>,
    rows    |-> [i \in 1..Len(df.rows) |->
                   df.rows[i] \o << estado_para_regiao(df.rows[i][u]) >>] ]

\* WithPercentual dividing by the total of the rows it is given
WithPercentual_kept(s, total) ==
  [i \in 1..Len(s) |->
     [ key |-> s[i].key, Quantidade |-> s[i].Quantidade,
       Clientes |-> s[i].Clientes, Vendas |-> s[i].Vendas,
       Percentual |-> Percentual(s[i].Quantidade, SumQuantidade(s)) ]]

\* the rows of an aggregate with the column Percentual of total
WithPercentual(s, total) ==
  [i \in 1..Len(s) |->
     [ key |-> s[i].key, Quantidade |-> s[i].Quantidade,
       Clientes |-> s[i].Clientes, Vendas |-> s[i].Vendas,
       Percentual |-> Percentual(s[i].Quantidade, total) ]]

\* the result of calcular_vendas_por_regiao on a frame that has REGIAO
calcular_vendas_por_regiao(df) ==
  LET g == groupby_agg(WithRegiao(df), cREGIAO)
  IN  sort_values(WithPercentual(g, SumQuantidade(g)))

(***************************************************************************)
(* Uploaded files                                                          *)
(***************************************************************************)
tEmpty == <<>>
tBlank == << " " >>
tDate == << "0", "5", "/", "0", "1", "/", "2", "0", "2", "5" >>
tBadDate == << "3", "1", "/", "1", "3", "/", "2", "0", "2", "5" >>
tAM == << "A", "M" >>
tSP == << "S", "P" >>
tXX == << "X", "X" >>
tHixis == << "H", "i", "x", "i", "s" >>
tTechNet == << "T", "e", "c", "h", "N", "e", "t" >>
tAna == << "A", "n", "a" >>
tRosangela == << "R", "o", "s", "a", "n", "g", "e", "l", "a" >>
tOne == << "1" >>
tTwo == << "2" >>
tMinusOne == << "-", "1" >>
tAbc == << "a", "b", "c" >>
c6F == << "6", "F" >>
c8F == << "8", "F" >>
c6F_8F == << "6", "F", "_", "8", "F" >>
cX8F == << "X", "8", "F" >>

Col(name, role) == [name |-> name, role |-> role]

\* the header of the example file of main(), without the unused columns
HeaderFull ==
  << Col(cDATA, "DATA"), Col(cUF, "UF"), Col(cCLIENTE, "CLIENTE"),
     Col(c6F, "Q1"), Col(c8F, "Q2"), Col(cCONSULTOR, "CONSULTOR") >>

HeaderNoDATA ==
  << Col(cUF, "UF"), Col(cCLIENTE, "CLIENTE"),
     Col(c6F, "Q1"), Col(c8F, "Q2"), Col(cCONSULTOR, "CONSULTOR") >>

HeaderNoUF ==
  << Col(cDATA, "DATA"), Col(cCLIENTE, "CLIENTE"),
     Col(c6F, "Q1"), Col(c8F, "Q2"), Col(cCONSULTOR, "CONSULTOR") >>

HeaderNoCONSULTOR ==
  << Col(cDATA, "DATA"), Col(cUF, "UF"), Col(cCLIENTE, "CLIENTE"),
     Col(c6F, "Q1"), Col(c8F, "Q2") >>

HeaderNoQuantity ==
  << Col(cDATA, "DATA"), Col(cUF, "UF"), Col(cCLIENTE, "CLIENTE"),
     Col(cCONSULTOR, "CONSULTOR") >>

\* quantity columns whose names hold a prefix elsewhere than at the start
HeaderOtherNames ==
  << Col(cDATA, "DATA"), Col(cUF, "UF"), Col(cCLIENTE, "CLIENTE"),
     Col(c6F_8F, "Q1"), Col(cX8F, "Q2"), Col(cCONSULTOR, "CONSULTOR") >>

Line(data, uf, cliente, consultor, q1, q2) ==
  [ DATA |-> data, UF |-> uf, CLIENTE |-> cliente, CONSULTOR |-> consultor,
    Q1 |-> q1, Q2 |-> q2 ]

People == { << tHixis, tAna >>, << tTechNet, tRosangela >> }

\* lines that survive the filters of carregar_dados
GoodLines ==
  { Line(tDate, uf, who[1], who[2], q[1], q[2]) :
      uf \in {tAM, tSP, tXX}, who \in People,
      q \in { << tOne, tEmpty >>, << tAbc, tTwo >> } }
  \cup { Line(tDate, tAM, tHixis, tAna, tMinusOne, tEmpty),
         Line(tDate, tAM, tTechNet, tEmpty, tEmpty, tEmpty) }

\* lines that the filters of carregar_dados drop
BadLines ==
  { Line(d, tAM, tHixis, tAna, tOne, tEmpty) :
      d \in {tEmpty, tBlank, JANEIRO, tBadDate} }
  \cup { Line(tDate, uf, tHixis, tAna, tOne, tEmpty) : uf \in {tEmpty, tBlank} }
  \cup { Line(JANEIRO, tEmpty, tEmpty, tEmpty, tEmpty, tEmpty) }

\* lines used with the headers other than HeaderFull
FewLines ==
  { Line(tDate, tAM, tHixis, tAna, q[1], q[2]) :
      q \in { << tEmpty, tEmpty >>, << tOne, tEmpty >>, << tAbc, tTwo >>,
              << tMinusOne, tEmpty >> } }
  \cup { Line(tBadDate, tAM, tHixis, tAna, tOne, tEmpty) }

SeqsUpTo(S, n) == UNION { [1..k -> S] : k \in 0..n }

\* the file with the given header whose data lines are ls
File(header, ls) ==
  [ header |-> [j \in 1..Len(header) |-> header[j].name],
    rows   |-> [i \in 1..Len(ls) |->
                  [j \in 1..Len(header) |-> ls[i][header[j].role]]] ]

Files ==
  { File(HeaderFull, ls) : ls \in SeqsUpTo(GoodLines \cup BadLines, MaxRows) }
  \cup { File(h, ls) :
           h \in { HeaderNoDATA, HeaderNoUF, HeaderNoCONSULTOR,
                   HeaderNoQuantity, HeaderOtherNames },
           ls \in SeqsUpTo(FewLines, MaxRows) }

\* every state code of the region lookup, region by region
AllStates ==
  LET m == criar_mapeamento_regioes
  IN  m[1][2] \o m[2][2] \o m[3][2] \o m[4][2] \o m[5][2]

\* files with one line per state, for the first n states, each selling 1 or 2
FilesTop ==
  { File(HeaderFull,
         [i \in 1..n |-> Line(tDate, AllStates[i], tHixis, tAna, q[i], tEmpty)]) :
      n \in 0..MaxStates, q \in [1..MaxStates -> {tOne, tTwo}] }

tBia == << "B", "i", "a" >>
tThree == << "3" >>

\* files of sales of 1, 2 or 3 by up to three consultants
FilesCut ==
  { File(HeaderFull, ls) :
      ls \in SeqsUpTo({ Line(tDate, tAM, tHixis, c, q, tEmpty) :
                          c \in {tAna, tBia, tRosangela},
                          q \in {tOne, tTwo, tThree} },
                      MaxSales) }

(***************************************************************************)
(* The script                                                              *)
(***************************************************************************)
VARIABLES
  pc,               \* the section of main() that runs next
  uploaded_file,    \* the file of st.file_uploader, NaN when none
  df,               \* the frame returned by carregar_dados, NaN when none
  exc,              \* the exception that ended the script, "none" when none
  msgs,             \* the st.error / st.warning / st.success messages shown
  total_plaquetas,
  vendas_regiao,
  vendas_estado,
  vendas_completo,
  top_clientes,
  top_consultores,
  vendas_6f,
  vendas_8f,
  vendas_por_consultor

vars ==
  << pc, uploaded_file, df, exc, msgs, total_plaquetas, vendas_regiao,
     vendas_estado, vendas_completo, top_clientes, top_consultores,
     vendas_6f, vendas_8f, vendas_por_consultor >>

aggs ==
  << total_plaquetas, vendas_regiao, vendas_estado, vendas_completo,
     top_clientes, top_consultores, vendas_6f, vendas_8f,
     vendas_por_consultor >>

Init ==
  /\ pc = "upload"
  /\ uploaded_file = NaN
  /\ df = NaN
  /\ exc = "none"
  /\ msgs = {}
  /\ total_plaquetas = 0
  /\ vendas_regiao = <<>>
  /\ vendas_estado = <<>>
  /\ vendas_completo = <<>>
  /\ top_clientes = <<>>
  /\ top_consultores = <<>>
  /\ vendas_6f = 0
  /\ vendas_8f = 0
  /\ vendas_por_consultor = <<>>

\* st.file_uploader returns a file
UploadFile(file) ==
  /\ pc = "upload"
  /\ uploaded_file' = file
  /\ pc' = "load"
  /\ UNCHANGED << df, exc, msgs, aggs >>

Upload == \E file \in Files : UploadFile(file)

UploadTop == \E file \in FilesTop : UploadFile(file)

UploadCut == \E file \in FilesCut : UploadFile(file)

\* df = carregar_dados(uploaded_file); an exception other than
\* FileNotFoundError leaves carregar_dados and main.  A section that raises
\* leaves pc where it is and sets exc, which ends the script.
Carregar ==
  /\ pc = "load" /\ exc = "none"
  /\ LET res == carregar_dados(uploaded_file) IN
       /\ df' = res.df
       /\ exc' = res.exc
       /\ pc' = IF res.exc = "none" THEN "check" ELSE pc
  /\ UNCHANGED << uploaded_file, msgs, aggs >>

\* df.empty
empty(d) == d.rows = <<>>

\* the checks of main() on the loaded frame
Check ==
  /\ pc = "check" /\ exc = "none"
  /\ IF df = NaN \/ empty(df)
       THEN msgs' = msgs \cup {"erro_carregar"} /\ pc' = "stopped"
       ELSE IF Len(df.rows) = 0
         THEN msgs' = msgs \cup {"aviso_sem_dados"} /\ pc' = "stopped"
         ELSE msgs' = msgs \cup {"sucesso"} /\ pc' = "kpis"
  /\ UNCHANGED << uploaded_file, df, exc, aggs >>

\* total_plaquetas = df['QUANTIDADE_TOTAL'].sum()
KPIs ==
  /\ pc = "kpis" /\ exc = "none"
  /\ total_plaquetas' = SumCol(df.rows, ColIdx(df, cQUANTIDADE_TOTAL))
  /\ pc' = "regiao"
  /\ UNCHANGED << uploaded_file, df, exc, msgs, vendas_regiao, vendas_estado,
                  vendas_completo, top_clientes, top_consultores,
                  vendas_6f, vendas_8f, vendas_por_consultor >>

\* vendas_regiao = calcular_vendas_por_regiao(df); top_regiao = .iloc[0]
Regiao ==
  /\ pc = "regiao" /\ exc = "none"
  /\ df' = WithRegiao(df)
  /\ IF ~ HasCol(df, cCLIENTE)
       THEN exc' = "KeyError" /\ pc' = pc /\ UNCHANGED vendas_regiao
       ELSE /\ vendas_regiao' = calcular_vendas_por_regiao(df)
            /\ IF vendas_regiao' = <<>>
                 THEN exc' = "IndexError" /\ pc' = pc
                 ELSE exc' = exc /\ pc' = "estados"
  /\ UNCHANGED << uploaded_file, msgs, total_plaquetas, vendas_estado,
                  vendas_completo, top_clientes, top_consultores,
                  vendas_6f, vendas_8f, vendas_por_consultor >>

\* the top 10 states and the per-state totals of the heat map
Estados ==
  /\ pc = "estados" /\ exc = "none"
  /\ vendas_estado' =
       WithPercentual(head(sort_values(groupby_agg(df, cUF)), TopN),
                      total_plaquetas)
  /\ vendas_completo' = groupby_sum(df, cUF)
  /\ pc' = "clientes"
  /\ UNCHANGED << uploaded_file, df, exc, msgs, total_plaquetas, vendas_regiao,
                  top_clientes, top_consultores, vendas_6f, vendas_8f, vendas_por_consultor >>

\* the top 10 clients
Clientes ==
  /\ pc = "clientes" /\ exc = "none"
  /\ top_clientes' = head(sort_values(groupby_sum(df, cCLIENTE)), TopN)
  /\ pc' = "consultores"
  /\ UNCHANGED << uploaded_file, df, exc, msgs, total_plaquetas, vendas_regiao,
                  vendas_estado, vendas_completo, top_consultores,
                  vendas_6f, vendas_8f, vendas_por_consultor >>

\* df[df['CONSULTOR'].notna() & (df['CONSULTOR'].str.strip() != '')]
ConsultoresValidos(d) ==
  LET c == ColIdx(d, cCONSULTOR) IN
  [d EXCEPT !.rows =
     SelectSeq(d.rows, LAMBDA r : ~ isna(r[c]) /\ strip(r[c].s) # <<>>)]

\* the exception raised by the filter on CONSULTOR, "none" when none
ConsultoresExc(d) ==
  IF ~ HasCol(d, cCONSULTOR) THEN "KeyError"
  ELSE IF DType(d, cCONSULTOR) # "object" THEN "AttributeError"
  ELSE "none"

\* the top 10 consultants
Consultores ==
  /\ pc = "consultores" /\ exc = "none"
  /\ IF ConsultoresExc(df) # "none"
       THEN /\ exc' = ConsultoresExc(df)
            /\ pc' = pc
            /\ UNCHANGED << msgs, top_consultores >>
       ELSE /\ exc' = exc
            /\ pc' = "modelos"
            /\ IF ~ empty(ConsultoresValidos(df))
                 THEN /\ top_consultores' =
                           head(sort_values(
                                  groupby_sum(ConsultoresValidos(df), cCONSULTOR)),
                                TopN)
                      /\ msgs' = msgs
                 ELSE /\ msgs' = msgs \cup {"aviso_consultores"}
                      /\ UNCHANGED top_consultores
  /\ UNCHANGED << uploaded_file, df, total_plaquetas, vendas_regiao,
                  vendas_estado, vendas_completo, top_clientes,
                  vendas_6f, vendas_8f, vendas_por_consultor >>

\* [col for col in df.columns if p in col and df[col].dtype in
\*  ['int64', 'float64']]
colunas_modelo(d, p) ==
  { j \in 1..Len(d.columns) :
      contains(d.columns[j], p) /\ d.dtypes[j] \in {"int64", "float64"} }

RECURSIVE SumFrame(_, _)
\* df[cols].fillna(0).sum().sum()
SumFrame(rows, cols) ==
  IF rows = <<>> THEN 0
  ELSE LET r == [j \in 1..Len(Head(rows)) |-> fillna0(Head(rows)[j])]
       IN  SumCols(r, cols, Len(r)) + SumFrame(Tail(rows), cols)

\* the totals of the two models
Modelos ==
  /\ pc = "modelos" /\ exc = "none"
  /\ vendas_6f' = SumFrame(df.rows, colunas_modelo(df, p6F))
  /\ vendas_8f' = SumFrame(df.rows, colunas_modelo(df, p8F))
  /\ msgs' = IF vendas_6f' + vendas_8f' > 0 THEN msgs
             ELSE msgs \cup {"aviso_modelos"}
  /\ pc' = "detalhe"
  /\ UNCHANGED << uploaded_file, df, exc, total_plaquetas, vendas_regiao,
                  vendas_estado, vendas_completo, top_clientes,
                  top_consultores, vendas_por_consultor >>

\* the labels of pd.cut, lowest bin first
labels == << "Basico", "Bom", "Excelente" >>

\* cut3 with the bins spanning [0, mx] instead of [mn, mx]
cut3_from_zero(x, mn, mx) ==
  IF mn = mx THEN 2
  ELSE CHOOSE k \in 1..3 :
         /\ 3 * x <= k * mx
         /\ k = 1 \/ 3 * x > (k - 1) * mx

\* pd.cut(values, bins=3) on the value x of a column with minimum mn and
\* maximum mx: the number of the bin of x.  The bins are the thirds of
\* [mn, mx], closed on the right, the first one widened below to hold mn;
\* with mn = mx the range is widened on both sides and x is in the middle
cut3(x, mn, mx) ==
  IF mn = mx THEN 2
  ELSE CHOOSE k \in 1..3 :
         /\ 3 * (x - mn) <= k * (mx - mn)
         /\ k = 1 \/ 3 * (x - mn) > (k - 1) * (mx - mn)

\* vendas_por_consultor['Total_Plaquetas'].min() and .max()
MinQuantidade(s) ==
  CHOOSE v \in { s[i].Quantidade : i \in 1..Len(s) } :
    \A i \in 1..Len(s) : v <= s[i].Quantidade

MaxQuantidade(s) ==
  CHOOSE v \in { s[i].Quantidade : i \in 1..Len(s) } :
    \A i \in 1..Len(s) : v >= s[i].Quantidade

\* the consultant ranking: Quantidade is the column Total_Plaquetas
WithPerformance(s) ==
  [i \in 1..Len(s) |->
     [ key |-> s[i].key, Quantidade |-> s[i].Quantidade, Ranking |-> i,
       Performance |->
         labels[cut3(s[i].Quantidade, MinQuantidade(s), MaxQuantidade(s))] ]]

\* the detailed analysis of the consultants
Detalhe ==
  /\ pc = "detalhe" /\ exc = "none"
  /\ IF ConsultoresExc(df) # "none"
       THEN /\ exc' = ConsultoresExc(df)
            /\ pc' = pc
            /\ UNCHANGED << msgs, vendas_por_consultor >>
       ELSE /\ exc' = exc
            /\ pc' = "end"
            /\ IF ~ empty(ConsultoresValidos(df))
                 THEN /\ vendas_por_consultor' =
                           WithPerformance(sort_values(
                             groupby_sum(ConsultoresValidos(df), cCONSULTOR)))
                      /\ msgs' = msgs
                 ELSE /\ msgs' = msgs \cup {"aviso_detalhe"}
                      /\ UNCHANGED vendas_por_consultor
  /\ UNCHANGED << uploaded_file, df, total_plaquetas, vendas_regiao,
                  vendas_estado, vendas_completo, top_clientes,
                  top_consultores, vendas_6f, vendas_8f >>

Sections ==
  \/ Carregar
  \/ Check
  \/ KPIs
  \/ Regiao
  \/ Estados
  \/ Clientes
  \/ Consultores
  \/ Modelos
  \/ Detalhe

Next == Upload \/ Sections

NextTop == UploadTop \/ Sections

NextCut == UploadCut \/ Sections

Spec == Init /\ [][Next]_vars

SpecTop == Init /\ [][NextTop]_vars

SpecCut == Init /\ [][NextCut]_vars

\* the sections of main() in the order they run; st.stop() leads to "stopped"
Order ==
  << "upload", "load", "check", "stopped", "kpis", "regiao", "estados",
     "clientes", "consultores", "modelos", "detalhe", "end" >>

Pos(p) == CHOOSE i \in 1..Len(Order) : Order[i] = p

\* section sec has run to its end without raising
Ran(sec) == Pos(pc) > Pos(sec)

TypeOK ==
  /\ pc \in { Order[i] : i \in 1..Len(Order) }
  /\ exc \in {"none", "KeyError", "AttributeError", "IndexError"}

(***************************************************************************)
(* The uploaded file as the properties speak of it                         *)
(***************************************************************************)
FileHas(name) ==
  \E j \in 1..Len(uploaded_file.header) : uploaded_file.header[j] = name

FileCol(name) ==
  CHOOSE j \in 1..Len(uploaded_file.header) : uploaded_file.header[j] = name

\* carregar_dados has been called and has returned or raised
LoadFinished == Ran("load") \/ (pc = "load" /\ exc # "none")

\* the script has ended: by an exception, by st.stop() or at its last line
Terminal == exc # "none" \/ pc \in {"stopped", "end"}

\* the line passes the row exclusion policy
Survives(line) ==
  LET d == line[FileCol(cDATA)]
      u == line[FileCol(cUF)]
  IN  /\ d \notin meses_invalidos
      /\ strip(d) # <<>>
      /\ strip(u) # <<>>
      /\ to_datetime(Str(d)) # NaN

Survivors == SelectSeq(uploaded_file.rows, Survives)

IsQuantityName(name) == startswith(name, p6F) \/ startswith(name, p8F)

\* cell c holds the text s of the file
CellIsText(c, s) ==
  \/ s = <<>> /\ c = NaN
  \/ c = Str(s)
  \/ IsIntText(s) /\ c = Num(IntOf(s))

\* row r of the frame is the line of the file, date parsed
RowIsLine(r, line) ==
  \A j \in 1..Len(uploaded_file.header) :
    IF j = FileCol(cDATA) THEN r[j] = to_datetime(Str(line[j]))
    ELSE IF IsQuantityName(uploaded_file.header[j]) THEN TRUE
    ELSE CellIsText(r[j], line[j])

\* the value of a quantity cell: missing or non-numeric counts as 0
TextValue(s) == IF IsIntText(s) THEN IntOf(s) ELSE 0

RECURSIVE LineTotal(_, _)
\* the sum of the quantity cells of a line of the file, columns 1..j
LineTotal(line, j) ==
  IF j = 0 THEN 0
  ELSE (IF IsQuantityName(uploaded_file.header[j]) THEN TextValue(line[j]) ELSE 0)
       + LineTotal(line, j - 1)

\* QUANTIDADE_TOTAL of row k of the loaded frame
Total(k) == df.rows[k][ColIdx(df, cQUANTIDADE_TOTAL)].n

(***************************************************************************)
(* Properties                                                              *)
(***************************************************************************)

\* C1: for every file that has the DATA and UF columns, carregar_dados
\* returns exactly the lines that pass the exclusion policy (DATA not a
\* month name, DATA and UF non-empty after strip, DATA a day/month/year
\* date), in the order of the file.
C1_SurvivorsExactly ==
  (LoadFinished /\ FileHas(cDATA) /\ FileHas(cUF)) =>
    /\ Ran("load")
    /\ LET kept == Survivors IN
       /\ Len(df.rows) = Len(kept)
       /\ \A k \in 1..Len(df.rows) : RowIsLine(df.rows[k], kept[k])

\* C2: for every row that survives ingestion, QUANTIDADE_TOTAL is the sum
\* of the row's cells over the columns named 6F... or 8F..., a missing or
\* non-numeric cell counting as 0.
C2_TotalIsSum ==
  Ran("load") =>
    LET kept == Survivors IN
    /\ Len(df.rows) = Len(kept)
    /\ \A k \in 1..Len(df.rows) :
         Total(k) = LineTotal(kept[k], Len(uploaded_file.header))

\* a surviving row with a non-numeric 6F cell and a numeric 8F cell
C2_Witness ==
  /\ Ran("load")
  /\ FileHas(c6F) /\ FileHas(c8F)
  /\ \E k \in 1..Len(df.rows) :
       /\ Survivors[k][FileCol(c6F)] = tAbc
       /\ Survivors[k][FileCol(c8F)] = tTwo
       /\ Total(k) = 2

\* C3: every record returned by ingestion has QUANTIDADE_TOTAL >= 0.
C3_TotalNonNegative ==
  Ran("load") => \A k \in 1..Len(df.rows) : Total(k) >= 0

\* C4: when the file lacks the DATA or the UF column, ingestion fails, no
\* frame reaches the aggregation, and main() stops with its report that
\* the data could not be loaded.
C4_SchemaErrorReported ==
  (Terminal /\ (~ FileHas(cDATA) \/ ~ FileHas(cUF))) =>
    /\ df = NaN
    /\ ~ Ran("kpis")
    /\ "erro_carregar" \in msgs

\* C5: with a non-empty cleaned frame, a state code outside the region
\* lookup makes no step fail, also when every record has such a code and
\* the region aggregate has no rows.
C5_UnmappedNeverFails ==
  (/\ Ran("check") /\ pc # "stopped"
   /\ \E k \in 1..Len(df.rows) :
        estado_para_regiao(df.rows[k][ColIdx(df, cUF)]) = NaN)
  => exc # "IndexError"

AllRows == 1..Len(df.rows)

RECURSIVE SumTotals(_)
\* the sum of QUANTIDADE_TOTAL over the rows K of the loaded frame
SumTotals(K) ==
  IF K = {} THEN 0
  ELSE LET k == CHOOSE x \in K : TRUE IN Total(k) + SumTotals(K \ {k})

\* the state code is one of the codes of the region lookup
InLookup(uf) ==
  \E i \in 1..Len(criar_mapeamento_regioes) :
    \E j \in 1..Len(criar_mapeamento_regioes[i][2]) :
      criar_mapeamento_regioes[i][2][j] = uf

UFOf(k) == df.rows[k][ColIdx(df, cUF)].s

MappedRows == { k \in AllRows : InLookup(UFOf(k)) }

\* C6: the Quantidade of the untruncated state aggregate sums to the
\* QUANTIDADE_TOTAL of all cleaned records, and the Quantidade of the region
\* aggregate sums to the QUANTIDADE_TOTAL of the records whose UF is in the
\* region lookup.
C6_Conservation ==
  Ran("estados") =>
    /\ SumQuantidade(vendas_completo) = SumTotals(AllRows)
    /\ Len(vendas_completo) <= TopN =>
         SumQuantidade(vendas_estado) = SumTotals(AllRows)
    /\ SumQuantidade(vendas_regiao) = SumTotals(MappedRows)

\* a record with an unmapped UF and a non-zero total beside a mapped one
C6_Witness ==
  /\ Ran("estados")
  /\ \E k \in AllRows \ MappedRows : Total(k) # 0
  /\ \E k \in MappedRows : Total(k) # 0
  /\ SumQuantidade(vendas_regiao) # SumQuantidade(vendas_estado)

\* C7: when the total over all groups is zero, the Percentual of every row
\* of the region and state aggregates is exactly 0.
C7_ZeroTotalZeroPercent ==
  Ran("estados") =>
    /\ total_plaquetas = 0 =>
         \A i \in 1..Len(vendas_estado) : vendas_estado[i].Percentual = Num(0)
    /\ SumQuantidade(vendas_regiao) = 0 =>
         \A i \in 1..Len(vendas_regiao) : vendas_regiao[i].Percentual = Num(0)

\* the first row of the frame whose column named col holds key
FirstRow(col, key) ==
  CHOOSE k \in AllRows :
    /\ df.rows[k][ColIdx(df, col)] = Str(key)
    /\ \A n \in 1..(k - 1) : df.rows[n][ColIdx(df, col)] # Str(key)

Descending(agg) ==
  \A i, j \in 1..Len(agg) : i < j => agg[i].Quantidade >= agg[j].Quantidade

\* descending, equal totals in the order of first appearance of the keys
DescendingThenFirst(agg, col) ==
  \A i, j \in 1..Len(agg) :
    i < j =>
      \/ agg[i].Quantidade > agg[j].Quantidade
      \/ /\ agg[i].Quantidade = agg[j].Quantidade
         /\ FirstRow(col, agg[i].key) < FirstRow(col, agg[j].key)

\* C8 as stated: every aggregate (region, state, client, consultant) is in
\* descending order of total quantity, keys with equal totals in the order
\* of their first appearance in the cleaned input.
C8_DescendingThenFirstAppearance ==
  Ran("consultores") =>
    /\ DescendingThenFirst(vendas_regiao, cREGIAO)
    /\ DescendingThenFirst(vendas_estado, cUF)
    /\ DescendingThenFirst(top_clientes, cCLIENTE)
    /\ DescendingThenFirst(top_consultores, cCONSULTOR)

\* C8 as amended: every aggregate (region, state, client, consultant) is in
\* descending order of total quantity.
C8_Descending ==
  /\ Ran("regiao") => Descending(vendas_regiao)
  /\ Ran("estados") => Descending(vendas_estado)
  /\ Ran("clientes") => Descending(top_clientes)
  /\ Ran("consultores") => Descending(top_consultores)

\* every aggregate has two rows, the larger total under the larger key
C8_Witness ==
  /\ Ran("consultores")
  /\ \A agg \in {vendas_regiao, vendas_estado, top_clientes, top_consultores} :
       /\ Len(agg) = 2
       /\ agg[1].Quantidade > agg[2].Quantidade
       /\ StrLess(agg[2].key, agg[1].key)

\* C9: the Percentual of every state of the top-10 state aggregate is its
\* quantity over the total quantity of all cleaned records, the Percentual
\* the state has in the untruncated aggregate, also with more than ten
\* states.
C9_TopKeepsPercent ==
  Ran("estados") =>
    LET g == sort_values(groupby_agg(df, cUF))
        full == [i \in 1..Len(g) |->
                   [ key |-> g[i].key,
                     Percentual |-> Percentual(g[i].Quantidade, SumQuantidade(g)) ]]
    IN  \A i \in 1..Len(vendas_estado) :
          /\ vendas_estado[i].Percentual =
               Percentual(vendas_estado[i].Quantidade, SumTotals(AllRows))
          /\ \E j \in 1..Len(full) :
               /\ full[j].key = vendas_estado[i].key
               /\ full[j].Percentual = vendas_estado[i].Percentual

\* more than ten states, ten kept, and a kept state whose share of the
\* kept rows differs from its Percentual
C9_Witness ==
  /\ Ran("estados")
  /\ Len(vendas_completo) > TopN
  /\ Len(vendas_estado) = TopN
  /\ \E i \in 1..Len(vendas_estado) :
       vendas_estado[i].Percentual #
         Percentual(vendas_estado[i].Quantidade, SumQuantidade(vendas_estado))

\* the columns of the loaded frame whose name starts with p
PrefixCols(p) == { j \in 1..Len(df.columns) : startswith(df.columns[j], p) }

\* C10: the 6-hole total is the sum over exactly the columns named 6F...,
\* the 8-hole total the sum over exactly the columns named 8F..., and the
\* two together are the sum of QUANTIDADE_TOTAL over all records.
C10_ModelTotals ==
  Ran("modelos") =>
    /\ vendas_6f = SumFrame(df.rows, PrefixCols(p6F))
    /\ vendas_8f = SumFrame(df.rows, PrefixCols(p8F))
    /\ vendas_6f + vendas_8f = SumTotals(AllRows)

\* C11: when the file has the columns DATA and UF and no line survives the
\* filters, loading finishes without raising and returns a frame of no
\* records, and every grouping of that frame is empty.
C11_NoSurvivorEmpty ==
  (LoadFinished /\ FileHas(cDATA) /\ FileHas(cUF) /\ Survivors = <<>>) =>
    /\ exc = "none"
    /\ df # NaN
    /\ df.rows = <<>>
    /\ calcular_vendas_por_regiao(df) = <<>>
    /\ groupby_agg(df, cUF) = <<>>
    /\ groupby_sum(df, cCLIENTE) = <<>>
    /\ groupby_sum(df, cMES) = <<>>

\* C12: a file with the columns DATA, UF, CLIENTE and a quantity column, at
\* least one surviving line and no column CONSULTOR runs through the
\* consultant sections to the end without raising, and the consultant
\* aggregates are empty.
C12_NoConsultorCompletes ==
  ( /\ Terminal
    /\ Pos(pc) >= Pos("consultores")
    /\ FileHas(cDATA) /\ FileHas(cUF) /\ FileHas(cCLIENTE)
    /\ \E j \in 1..Len(uploaded_file.header) :
         IsQuantityName(uploaded_file.header[j])
    /\ ~ FileHas(cCONSULTOR)
    /\ Survivors # <<>> ) =>
    /\ exc = "none"
    /\ pc = "end"
    /\ top_consultores = <<>>
    /\ vendas_por_consultor = <<>>

\* C13: when the load returns a frame from which every line was filtered
\* out, the script shows the warning that the file holds no valid data, and
\* not the message shown when the data could not be loaded.
C13_EmptyWarned ==
  (Ran("check") /\ df # NaN /\ df.rows = <<>>) =>
    /\ "aviso_sem_dados" \in msgs
    /\ "erro_carregar" \notin msgs

\* the number of a performance label, 1 for the lowest
Tier(label) == CHOOSE k \in 1..Len(labels) : labels[k] = label

\* the totals of the consultant ranking
Totals == { vendas_por_consultor[i].Quantidade :
              i \in 1..Len(vendas_por_consultor) }

MinTotal == CHOOSE v \in Totals : \A w \in Totals : v <= w

MaxTotal == CHOOSE v \in Totals : \A w \in Totals : v >= w

\* C14: the detailed consultant section does not raise; when the totals of
\* its ranking differ, each consultant's label is the one of the third of
\* [min, max] that holds the total, labels ascending, the smallest total
\* in the lowest tier and the largest in the highest; when there is one
\* consultant or all totals are equal, all consultants have the same label.
C14_Tiers ==
  /\ pc = "detalhe" => exc = "none"
  /\ (Ran("detalhe") /\ vendas_por_consultor # <<>>) =>
       LET s == vendas_por_consultor
           w == MaxTotal - MinTotal
       IN  IF MinTotal < MaxTotal
             THEN \A i \in 1..Len(s) :
                    LET x == s[i].Quantidade
                        k == Tier(s[i].Performance)
                    IN  /\ s[i].Performance \in
                             { labels[n] : n \in 1..Len(labels) }
                        /\ (k - 1) * w <= 3 * (x - MinTotal)
                        /\ 3 * (x - MinTotal) <= k * w
                        /\ x = MinTotal => k = 1
                        /\ x = MaxTotal => k = 3
                        /\ \A j \in 1..Len(s) :
                             x <= s[j].Quantidade =>
                               k <= Tier(s[j].Performance)
             ELSE \A i, j \in 1..Len(s) :
                    s[i].Performance = s[j].Performance

\* three consultants with different totals, one in each tier
C14_Witness ==
  /\ Ran("detalhe")
  /\ MinTotal < MaxTotal
  /\ { vendas_por_consultor[i].Performance :
         i \in 1..Len(vendas_por_consultor) } =
       { labels[n] : n \in 1..Len(labels) }

\* several consultants with equal totals
C14_WitnessEqual ==
  /\ Ran("detalhe")
  /\ Len(vendas_por_consultor) > 1
  /\ MinTotal = MaxTotal

====
